---- MODULE Spec2Model ----
(***************************************************************************)
(* USBtoSerial (src/usb/USBtoSerial.c): the main loop that moves bytes     *)
(* from the CDC OUT endpoint through USBtoUSART_Buffer to the CDC IN       *)
(* endpoint, and the line-encoding event handler that reprograms USART1.   *)
(*                                                                         *)
(* The ring buffer (LUFA RingBuffer.h), the CDC class driver and the AVR   *)
(* register map are not part of src/: the ring buffer is modelled from     *)
(* section 4.1 of the specification, the driver calls are inputs of the    *)
(* actions, and a register is the set of its bit positions that are set.   *)
(***************************************************************************)
EXTENDS Integers, Sequences, FiniteSets, TLC

(* ------------------------------ bounds -------------------------------- *)

\* Bytes the host offers on the OUT endpoint in a run of the main loop alone.
MaxStream == 130

\* Bytes the host offers in a run of the main loop with a bank of 64 bytes.
ChunkStream == 100

\* Bytes the host offers in a run of the whole program (loop and handler).
ShortStream == 2

\* Line-encoding requests the host issues in a run of the whole program.
MaxEvents == 2

\* Iterations that are numbered in the section 8 scenario (the counter
\* saturates there).
MaxIter == 135

(* ------------------------- program constants -------------------------- *)

\* sizeof(USBtoUSART_Buffer_Data)
Capacity == 128

\* CDC_TXRX_EPSIZE is set in Descriptors.h, which is not part of src/:
\* the endpoint bank sizes the runs are made with.
EPSizes == {8, 16}

\* Section 8, chunk cap: MaxChunk = 64.
ChunkEPSize == 64

\* Section 8, scenario: 150 bytes offered, MaxChunk = 8.
ScenarioStream == 150
ScenarioEPSize == 8

\* CDC_Device_ReceiveByte: the value returned when no byte is waiting.
NoData == -1

\* CDC_Device_SendByte: Endpoint_WaitUntilReady_ErrorCodes_t.
ENDPOINT_READYWAIT_NoError == "NoError"
SendOutcomes == {"NoError", "EndpointStalled", "Timeout"}

MIN(a, b) == IF a < b THEN a ELSE b

\* The i-th byte the host sends (i >= 1): 255, 0, 1, 2, ...  All bytes of a
\* run differ, so that a lost, repeated or reordered byte shows.
StreamByte(i) == (254 + i) % 256

(* --------------------------- ring buffer ------------------------------ *)

RingBuffer_InitBuffer(size) ==
  [In |-> 0, Out |-> 0, Size |-> size, Count |-> 0,
   Data |-> [i \in 0 .. size - 1 |-> 0]]

RingBuffer_GetCount(b) == b.Count

RingBuffer_IsFull(b) == RingBuffer_GetCount(b) = b.Size

RingBuffer_IsEmpty(b) == RingBuffer_GetCount(b) = 0

\* The caller checks IsFull first; an unchecked insert overwrites the slot
\* at In and still counts.
RingBuffer_Insert(b, d) ==
  [b EXCEPT !.Data[b.In] = d % 256,
            !.In = (b.In + 1) % b.Size,
            !.Count = (b.Count + 1) % 65536]

RingBuffer_Peek(b) == b.Data[b.Out]

RingBuffer_Remove(b) ==
  [b EXCEPT !.Out = (b.Out + 1) % b.Size,
            !.Count = (b.Count - 1) % 65536]

\* The bytes held, head first.
Contents(b) ==
  [i \in 1 .. MIN(b.Count, b.Size) |-> b.Data[(b.Out + i - 1) % b.Size]]

(* ------------------------------ state --------------------------------- *)

VARIABLES
  pc,                 \* where main is: "ingress", "egress", "send", "housekeeping"
  USBtoUSART_Buffer,  \* the ring buffer and its storage
  BufferCount,        \* main's local, line 102
  BytesToSend,        \* main's local, line 110
  CDC_TXRX_EPSIZE,    \* the IN/OUT endpoint bank size of the build
  env,                \* "free": any read and send outcome;
                      \* "refusing", "accepting": the section 8 scenario
  streamLen,          \* bytes the host offers in this run
  received,           \* history: bytes CDC_Device_ReceiveByte returned
  sent,               \* history: bytes CDC_Device_SendByte accepted
  inserts,            \* history: calls of RingBuffer_Insert
  removes,            \* history: calls of RingBuffer_Remove
  precondOK,          \* history: no Insert on a full buffer, no Peek or
                      \*          Remove on an empty one, so far
  ingress,            \* history: what this iteration's ingress did
  inReady,            \* history: Endpoint_IsINReady() of this iteration
  attempts,           \* history: CDC_Device_SendByte calls of this iteration
  lastPeek,           \* history: the byte of the last such call, or NoData
  lastSend,           \* history: its result, or "none"
  lastRetry,          \* history: that call sent a byte again after a failure
  failedByte,         \* history: the byte whose send failed last and has not
                      \*          been sent since, or NoData
  cdcTasks,           \* history: CDC_Device_USBTask calls since the iteration began
  usbTasks,           \* history: USB_USBTask calls since the iteration began
  iter,               \* history: iterations completed (scenario runs only)
  hpc,                \* where the line-encoding handler is: "idle", or the
                      \* line of its next register write, "L210" .. "L220"
  LineEncoding,       \* VirtualSerial_CDC_Interface.State.LineEncoding
  ConfigMask,         \* the handler's local, lines 181-207
  UCSR1A,             \* USART1 status register: U2X1
  UCSR1B,             \* USART1 control register: RXCIE1, RXEN1, TXEN1
  UCSR1C,             \* USART1 mode register: parity, stop bits, data bits
  UBRR1,              \* USART1 baud rate divisor
  events,             \* history: line-encoding events delivered
  lastWrite,          \* history: the register the handler wrote last
  divEvent,           \* history: the event whose baud rate is in UBRR1
  modeEvent,          \* history: the event whose ConfigMask is in UCSR1C
  prevRegs            \* history: the registers when the last event arrived

mainVars ==
  <<pc, USBtoUSART_Buffer, BufferCount, BytesToSend, received, sent,
    inserts, removes, precondOK, ingress, inReady, attempts, lastPeek,
    lastSend, lastRetry, failedByte, cdcTasks, usbTasks, iter>>

envVars == <<CDC_TXRX_EPSIZE, env, streamLen>>

regVars == <<UCSR1A, UCSR1B, UCSR1C, UBRR1>>

usartVars ==
  <<hpc, LineEncoding, ConfigMask, regVars, events, lastWrite, divEvent,
    modeEvent, prevRegs>>

vars == <<mainVars, envVars, usartVars>>

(* ---------------------------- environment ----------------------------- *)

\* What CDC_Device_ReceiveByte may return now.
ReadOutcomes ==
  IF Len(received) < streamLen
    THEN IF env = "free"
           THEN {NoData, StreamByte(Len(received) + 1)}
           ELSE {StreamByte(Len(received) + 1)}
    ELSE {NoData}

\* What Endpoint_IsINReady may return now.
ReadyOutcomes == IF env = "accepting" THEN {TRUE} ELSE BOOLEAN

\* What CDC_Device_SendByte may return now.
SendByteOutcomes ==
  CASE env = "accepting" -> {ENDPOINT_READYWAIT_NoError}
    [] env = "refusing" -> SendOutcomes \ {ENDPOINT_READYWAIT_NoError}
    [] OTHER -> SendOutcomes

(* ------------------------------- main --------------------------------- *)

\* main, lines 80-88, with the build's endpoint size and the host's stream.
InitMain(sizes, mode, len) ==
  /\ pc = "ingress"
  /\ USBtoUSART_Buffer = RingBuffer_InitBuffer(Capacity)
  /\ BufferCount = 0
  /\ BytesToSend = 0
  /\ CDC_TXRX_EPSIZE \in sizes
  /\ env = mode
  /\ streamLen = len
  /\ received = <<>>
  /\ sent = <<>>
  /\ inserts = 0
  /\ removes = 0
  /\ precondOK = TRUE
  /\ ingress = "none"
  /\ inReady = FALSE
  /\ attempts = 0
  /\ lastPeek = NoData
  /\ lastSend = "none"
  /\ lastRetry = FALSE
  /\ failedByte = NoData
  /\ cdcTasks = 0
  /\ usbTasks = 0
  /\ iter = 0

\* Mutant: main goes on while the handler is between two register writes.
MainPreemptsHandler == TRUE

\* The handler is an ordinary function, called from the control request
\* event (lines 169-172): main goes on when it has returned.
MainMayRun == hpc = "idle"

\* Mutant: the read is attempted whether or not the buffer is full.
IngressAlways == TRUE

\* Line 92: the test that admits a read.
IngressAllowed == ~RingBuffer_IsFull(USBtoUSART_Buffer)

\* Mutant: whatever the read returned is inserted.
ByteReceivedAlways(ReceivedByte) == TRUE

\* Line 97: the test that admits the insert.
ByteReceived(ReceivedByte) == ~(ReceivedByte < 0)

\* Lines 91-99: at most one byte from the OUT endpoint into the buffer.
Ingress ==
  /\ MainMayRun
  /\ pc = "ingress"
  /\ pc' = "egress"
  /\ cdcTasks' = 0
  /\ usbTasks' = 0
  /\ IF IngressAllowed
       THEN \E ReceivedByte \in ReadOutcomes :
              /\ received' = IF ReceivedByte = NoData
                               THEN received
                               ELSE Append(received, ReceivedByte)
              /\ IF ByteReceived(ReceivedByte)
                   THEN /\ USBtoUSART_Buffer' =
                             RingBuffer_Insert(USBtoUSART_Buffer, ReceivedByte)
                        /\ inserts' = inserts + 1
                        /\ precondOK' =
                             (precondOK /\ ~RingBuffer_IsFull(USBtoUSART_Buffer))
                        /\ ingress' = "byte"
                   ELSE /\ UNCHANGED <<USBtoUSART_Buffer, inserts, precondOK>>
                        /\ ingress' = "nodata"
       ELSE /\ ingress' = "full"
            /\ UNCHANGED <<USBtoUSART_Buffer, received, inserts, precondOK>>
  /\ UNCHANGED <<BufferCount, BytesToSend, sent, removes, inReady, attempts,
                 lastPeek, lastSend, lastRetry, failedByte, iter, envVars,
                 usartVars>>

\* Mutant: a whole bank is sent, MIN(BufferCount, CDC_TXRX_EPSIZE).
ChunkSizeWholeBank(count, epsize) == MIN(count, epsize) % 256

\* Mutant: the chunk ignores how many bytes the buffer holds.
ChunkSizeUncounted(count, epsize) == (epsize - 1) % 256

\* Line 110: uint8_t BytesToSend = MIN(BufferCount, (CDC_TXRX_EPSIZE - 1)).
ChunkSize(count, epsize) == MIN(count, epsize - 1) % 256

\* Lines 102-110: the count, the IN endpoint's readiness, the chunk size.
EgressBegin ==
  /\ MainMayRun
  /\ pc = "egress"
  /\ BufferCount' = RingBuffer_GetCount(USBtoUSART_Buffer)
  /\ ingress' = "none"
  /\ \E ready \in ReadyOutcomes :
       /\ inReady' = ready
       /\ IF ready
            THEN /\ BytesToSend' = ChunkSize(BufferCount', CDC_TXRX_EPSIZE)
                 /\ pc' = "send"
            ELSE /\ BytesToSend' = 0
                 /\ pc' = "housekeeping"
  /\ UNCHANGED <<USBtoUSART_Buffer, received, sent, inserts, removes,
                 precondOK, attempts, lastPeek, lastSend, lastRetry,
                 failedByte, cdcTasks, usbTasks, iter, envVars, usartVars>>

\* Mutant: while (--BytesToSend).
LoopEntersPreDecrement(n) == n - 1 # 0

\* Line 113: while (BytesToSend--) enters the body.
LoopEnters(n) == n # 0

\* Mutant: the result of CDC_Device_SendByte is ignored.
SendSucceededAlways(ErrorCode) == TRUE

\* Mutant: a stalled endpoint is taken for a sent byte.
SendSucceededUnlessTimeout(ErrorCode) == ErrorCode # "Timeout"

\* Lines 115-116: the send is taken to have succeeded.
SendSucceeded(ErrorCode) == ErrorCode = ENDPOINT_READYWAIT_NoError

\* Lines 113-123: one pass of the while loop: leave it, or peek and send
\* the head byte and remove it if the send succeeded, else break.
\* BytesToSend goes out of scope with the block.
EgressSend ==
  /\ MainMayRun
  /\ pc = "send"
  /\ IF LoopEnters(BytesToSend)
       THEN \E ErrorCode \in SendByteOutcomes :
              /\ attempts' = attempts + 1
              /\ lastPeek' = RingBuffer_Peek(USBtoUSART_Buffer)
              /\ lastSend' = ErrorCode
              /\ lastRetry' = (failedByte # NoData)
              /\ failedByte' = IF ErrorCode = ENDPOINT_READYWAIT_NoError
                                 THEN NoData
                                 ELSE RingBuffer_Peek(USBtoUSART_Buffer)
              /\ IF SendSucceeded(ErrorCode)
                   THEN /\ USBtoUSART_Buffer' =
                             RingBuffer_Remove(USBtoUSART_Buffer)
                        /\ removes' = removes + 1
                        /\ precondOK' =
                             (precondOK /\ ~RingBuffer_IsEmpty(USBtoUSART_Buffer))
                        /\ BytesToSend' = (BytesToSend - 1) % 256
                        /\ pc' = "send"
                   ELSE /\ precondOK' =
                             (precondOK /\ ~RingBuffer_IsEmpty(USBtoUSART_Buffer))
                        /\ BytesToSend' = 0
                        /\ pc' = "housekeeping"
                        /\ UNCHANGED <<USBtoUSART_Buffer, removes>>
              /\ sent' = IF ErrorCode = ENDPOINT_READYWAIT_NoError
                           THEN Append(sent, RingBuffer_Peek(USBtoUSART_Buffer))
                           ELSE sent
       ELSE /\ BytesToSend' = 0
            /\ pc' = "housekeeping"
            /\ UNCHANGED <<USBtoUSART_Buffer, sent, removes, precondOK,
                           attempts, lastPeek, lastSend, lastRetry,
                           failedByte>>
  /\ UNCHANGED <<BufferCount, received, inserts, ingress, inReady, cdcTasks,
                 usbTasks, iter, envVars, usartVars>>

\* Mutant: the tasks are run only by an iteration that moved a byte.
HousekeepingWhenBusy ==
  /\ MainMayRun
  /\ pc = "housekeeping"
  /\ cdcTasks' = IF attempts > 0 \/ ingress = "byte" THEN cdcTasks + 1 ELSE cdcTasks
  /\ usbTasks' = IF attempts > 0 THEN usbTasks + 1 ELSE usbTasks
  /\ pc' = "ingress"
  /\ BufferCount' = 0
  /\ inReady' = FALSE
  /\ attempts' = 0
  /\ lastPeek' = NoData
  /\ lastSend' = "none"
  /\ lastRetry' = FALSE
  /\ iter' = IF env = "free" THEN iter ELSE MIN(iter + 1, MaxIter)
  /\ UNCHANGED <<USBtoUSART_Buffer, BytesToSend, received, sent, inserts,
                 removes, precondOK, ingress, failedByte, envVars, usartVars>>

\* Lines 126-128: the two task calls, and the end of the loop body.
Housekeeping ==
  /\ MainMayRun
  /\ pc = "housekeeping"
  /\ cdcTasks' = cdcTasks + 1
  /\ usbTasks' = usbTasks + 1
  /\ pc' = "ingress"
  /\ BufferCount' = 0
  /\ inReady' = FALSE
  /\ attempts' = 0
  /\ lastPeek' = NoData
  /\ lastSend' = "none"
  /\ lastRetry' = FALSE
  /\ iter' = IF env = "free" THEN iter ELSE MIN(iter + 1, MaxIter)
  /\ UNCHANGED <<USBtoUSART_Buffer, BytesToSend, received, sent, inserts,
                 removes, precondOK, ingress, failedByte, envVars, usartVars>>

\* Lines 89-128: for (;;).
main == Ingress \/ EgressBegin \/ EgressSend \/ Housekeeping

(* ------------------- line-encoding event handler --------------------- *)

\* Bit positions of the USART1 registers (avr/io.h).
U2X1 == 1
RXCIE1 == 7
RXEN1 == 4
TXEN1 == 3
UPM11 == 5
UPM10 == 4
USBS1 == 3
UCSZ11 == 2
UCSZ10 == 1

\* CDC_LineEncodingParity_t and CDC_LineEncodingFormats_t.
CDC_PARITY_None == "None"
CDC_PARITY_Odd == "Odd"
CDC_PARITY_Even == "Even"
CDC_LINEENCODING_OneStopBit == "OneStopBit"
CDC_LINEENCODING_TwoStopBits == "TwoStopBits"

\* The core clock of the build, in Hz.
F_CPU == 16000000

\* The double-speed divisor, section 4.3 step 5, as UBRR1 holds it.
SERIAL_2X_UBBRVAL(Baud) == ((F_CPU \div (8 * Baud)) - 1) % 65536

\* The line encodings the host asks for in a run of the handler alone:
\* every parity, stop bit and data bit setting of a CDC line coding, the
\* data bit counts outside 6 .. 8 among them.
AllLineEncodings ==
  [BaudRateBPS : {9600, 57600, 115200},
   CharFormat : {"OneStopBit", "OneAndAHalfStopBits", "TwoStopBits"},
   ParityType : {"None", "Odd", "Even", "Mark", "Space"},
   DataBits : {5, 6, 7, 8, 16}]

\* The line encodings the host asks for in a run of the whole program.
LineEncodings ==
  { [BaudRateBPS |-> 9600, CharFormat |-> CDC_LINEENCODING_OneStopBit,
     ParityType |-> CDC_PARITY_None, DataBits |-> 8],
    [BaudRateBPS |-> 115200, CharFormat |-> CDC_LINEENCODING_TwoStopBits,
     ParityType |-> CDC_PARITY_Even, DataBits |-> 7],
    [BaudRateBPS |-> 19200, CharFormat |-> CDC_LINEENCODING_OneStopBit,
     ParityType |-> CDC_PARITY_Odd, DataBits |-> 5] }

\* USART1 after reset, no line encoding received yet.
InitUSART ==
  /\ hpc = "idle"
  /\ LineEncoding = [BaudRateBPS |-> 0,
                     CharFormat |-> CDC_LINEENCODING_OneStopBit,
                     ParityType |-> CDC_PARITY_None, DataBits |-> 0]
  /\ ConfigMask = {}
  /\ UCSR1A = {}
  /\ UCSR1B = {}
  /\ UCSR1C = {UCSZ11, UCSZ10}
  /\ UBRR1 = 0
  /\ events = 0
  /\ lastWrite = "none"
  /\ divEvent = 0
  /\ modeEvent = 0
  /\ prevRegs = <<{}, {}, {UCSZ11, UCSZ10}, 0>>

\* Mutant: the cases of the parity switch are exchanged.
ParityMaskExchanged(enc) ==
  CASE enc.ParityType = CDC_PARITY_Even -> {UPM11, UPM10}
    [] enc.ParityType = CDC_PARITY_Odd -> {UPM11}
    [] OTHER -> {}

\* Lines 183-191: the parity bits.
ParityMask(enc) ==
  CASE enc.ParityType = CDC_PARITY_Odd -> {UPM11, UPM10}
    [] enc.ParityType = CDC_PARITY_Even -> {UPM11}
    [] OTHER -> {}

\* Lines 193-194: the stop bit flag.
StopMask(enc) ==
  IF enc.CharFormat = CDC_LINEENCODING_TwoStopBits THEN {USBS1} ELSE {}

\* Mutant: a data bit count the switch does not list is taken as 8.
DataBitsMaskClamped(enc) ==
  CASE enc.DataBits = 6 -> {UCSZ10}
    [] enc.DataBits = 7 -> {UCSZ11}
    [] OTHER -> {UCSZ11, UCSZ10}

\* Lines 196-207: the data bit flags.
DataBitsMask(enc) ==
  CASE enc.DataBits = 6 -> {UCSZ10}
    [] enc.DataBits = 7 -> {UCSZ11}
    [] enc.DataBits = 8 -> {UCSZ11, UCSZ10}
    [] OTHER -> {}

\* Lines 181-207: ConfigMask as the handler accumulates it.
ConfigMaskOf(enc) == (ParityMask(enc) \cup StopMask(enc)) \cup DataBitsMask(enc)

\* Lines 169-172 and 179-207: the host's SetLineEncoding request is
\* processed, the new encoding (one of encs) is stored and the handler is
\* entered; it computes ConfigMask and stands before its first register
\* write.
ControlRequest(encs) ==
  /\ hpc = "idle"
  /\ events < MaxEvents
  /\ \E enc \in encs :
       /\ LineEncoding' = enc
       /\ ConfigMask' = ConfigMaskOf(enc)
  /\ events' = events + 1
  /\ lastWrite' = "none"
  /\ prevRegs' = regVars
  /\ hpc' = "L210"
  /\ UNCHANGED <<mainVars, envVars, regVars, divEvent, modeEvent>>

EVENT_USB_Device_ControlRequest == ControlRequest(LineEncodings)

\* Mutant: the handler empties the transmit buffer as it reconfigures.
HandlerFrameFlush ==
  /\ USBtoUSART_Buffer' = RingBuffer_InitBuffer(Capacity)
  /\ UNCHANGED <<pc, BufferCount, BytesToSend, received, sent, inserts,
                 removes, precondOK, ingress, inReady, attempts, lastPeek,
                 lastSend, lastRetry, failedByte, cdcTasks, usbTasks, iter>>
  /\ UNCHANGED <<envVars, LineEncoding, events, prevRegs>>

\* What a register write of the handler leaves alone.
HandlerFrame == UNCHANGED <<mainVars, envVars, LineEncoding, events, prevRegs>>

\* Mutant: the USART is not turned off before it is reprogrammed.
Write_L210_Omitted ==
  /\ hpc = "L210"
  /\ lastWrite' = "none"
  /\ hpc' = "L211"
  /\ HandlerFrame
  /\ UNCHANGED <<ConfigMask, regVars, divEvent, modeEvent>>

\* Line 210: UCSR1B = 0.
Write_L210 ==
  /\ hpc = "L210"
  /\ UCSR1B' = {}
  /\ lastWrite' = "UCSR1B"
  /\ hpc' = "L211"
  /\ HandlerFrame
  /\ UNCHANGED <<ConfigMask, UCSR1A, UCSR1C, UBRR1, divEvent, modeEvent>>

\* Line 211: UCSR1A = 0.
Write_L211 ==
  /\ hpc = "L211"
  /\ UCSR1A' = {}
  /\ lastWrite' = "UCSR1A"
  /\ hpc' = "L212"
  /\ HandlerFrame
  /\ UNCHANGED <<ConfigMask, UCSR1B, UCSR1C, UBRR1, divEvent, modeEvent>>

\* Line 212: UCSR1C = 0.
Write_L212 ==
  /\ hpc = "L212"
  /\ UCSR1C' = {}
  /\ lastWrite' = "UCSR1C"
  /\ hpc' = "L215"
  /\ HandlerFrame
  /\ UNCHANGED <<ConfigMask, UCSR1A, UCSR1B, UBRR1, divEvent, modeEvent>>

\* Mutant: the divisor is that of the single-speed mode.
Write_L215_SingleSpeed ==
  /\ hpc = "L215"
  /\ UBRR1' = ((F_CPU \div (16 * LineEncoding.BaudRateBPS)) - 1) % 65536
  /\ divEvent' = events
  /\ lastWrite' = "UBRR1"
  /\ hpc' = "L218"
  /\ HandlerFrame
  /\ UNCHANGED <<ConfigMask, UCSR1A, UCSR1B, UCSR1C, modeEvent>>

\* Mutant: a divisor already programmed is kept.
Write_L215_KeepsDivisor ==
  /\ hpc = "L215"
  /\ UBRR1' = IF UBRR1 = 0 THEN SERIAL_2X_UBBRVAL(LineEncoding.BaudRateBPS)
               ELSE UBRR1
  /\ divEvent' = events
  /\ lastWrite' = "UBRR1"
  /\ hpc' = "L218"
  /\ HandlerFrame
  /\ UNCHANGED <<ConfigMask, UCSR1A, UCSR1B, UCSR1C, modeEvent>>

\* Line 215: UBRR1 = SERIAL_2X_UBBRVAL(BaudRateBPS).
Write_L215 ==
  /\ hpc = "L215"
  /\ UBRR1' = SERIAL_2X_UBBRVAL(LineEncoding.BaudRateBPS)
  /\ divEvent' = events
  /\ lastWrite' = "UBRR1"
  /\ hpc' = "L218"
  /\ HandlerFrame
  /\ UNCHANGED <<ConfigMask, UCSR1A, UCSR1B, UCSR1C, modeEvent>>

\* Line 218: UCSR1C = ConfigMask.
Write_L218 ==
  /\ hpc = "L218"
  /\ UCSR1C' = ConfigMask
  /\ modeEvent' = events
  /\ lastWrite' = "UCSR1C"
  /\ hpc' = "L219"
  /\ HandlerFrame
  /\ UNCHANGED <<ConfigMask, UCSR1A, UCSR1B, UBRR1, divEvent>>

\* Line 219: UCSR1A = (1 << U2X1).
Write_L219 ==
  /\ hpc = "L219"
  /\ UCSR1A' = {U2X1}
  /\ lastWrite' = "UCSR1A"
  /\ hpc' = "L220"
  /\ HandlerFrame
  /\ UNCHANGED <<ConfigMask, UCSR1B, UCSR1C, UBRR1, divEvent, modeEvent>>

\* Lines 220-221: UCSR1B = RXCIE1 | TXEN1 | RXEN1, and the handler returns
\* (ConfigMask goes out of scope).
Write_L220 ==
  /\ hpc = "L220"
  /\ UCSR1B' = {RXCIE1, TXEN1, RXEN1}
  /\ lastWrite' = "UCSR1B"
  /\ ConfigMask' = {}
  /\ hpc' = "idle"
  /\ HandlerFrame
  /\ UNCHANGED <<UCSR1A, UCSR1C, UBRR1, divEvent, modeEvent>>

\* Lines 209-220: the register writes, in program order.
EVENT_CDC_Device_LineEncodingChanged ==
  \/ Write_L210
  \/ Write_L211
  \/ Write_L212
  \/ Write_L215
  \/ Write_L218
  \/ Write_L219
  \/ Write_L220

(* -------------------------- specifications ---------------------------- *)

\* The whole program: the main loop and the line-encoding event, which may
\* be delivered wherever the loop stands; any outcome of every read and send.
Init == InitMain(EPSizes, "free", ShortStream) /\ InitUSART

Next ==
  \/ main
  \/ EVENT_USB_Device_ControlRequest
  \/ EVENT_CDC_Device_LineEncodingChanged

Spec == Init /\ [][Next]_vars

\* The main loop alone, any outcome of every read and send, a stream long
\* enough to fill the buffer.
MainInit == InitMain(EPSizes, "free", MaxStream) /\ InitUSART

MainSpec == MainInit /\ [][main]_vars

\* The main loop alone with an endpoint bank of 64 bytes.
ChunkInit == InitMain({ChunkEPSize}, "free", ChunkStream) /\ InitUSART

ChunkSpec == ChunkInit /\ [][main]_vars

\* The main loop alone, which never blocks or waits: for (;;) takes its
\* next step whenever it has one.
FairInit == InitMain({ScenarioEPSize}, "free", MaxStream) /\ InitUSART

FairSpec == FairInit /\ [][main]_vars /\ WF_vars(main)

\* Section 8, scenario: the sink, which accepted nothing, starts accepting.
SinkStartsAccepting ==
  /\ MainMayRun
  /\ pc = "ingress"
  /\ env = "refusing"
  /\ env' = "accepting"
  /\ UNCHANGED <<mainVars, CDC_TXRX_EPSIZE, streamLen, usartVars>>

\* Section 8, scenario: 150 bytes, one offered to every read, a sink that
\* accepts nothing and then everything, a bank of 8 bytes.
ScenarioInit ==
  InitMain({ScenarioEPSize}, "refusing", ScenarioStream) /\ InitUSART

ScenarioSpec == ScenarioInit /\ [][main \/ SinkStartsAccepting]_vars

\* The scenario with the loop taking its next step whenever it has one:
\* the sink may start accepting in any iteration, or never.
DeliverySpec ==
  ScenarioInit /\ [][main \/ SinkStartsAccepting]_vars /\ WF_vars(main)

\* The handler alone: line-encoding events with every encoding, main
\* standing at the head of its loop.
HostRequest == ControlRequest(AllLineEncodings)

HandlerInit == InitMain({ScenarioEPSize}, "free", ShortStream) /\ InitUSART

HandlerSpec ==
  HandlerInit /\ [][HostRequest \/ EVENT_CDC_Device_LineEncodingChanged]_vars

(* ------------------------------ claims -------------------------------- *)

Buffer == USBtoUSART_Buffer

SendFailed == lastSend \notin {"none", ENDPOINT_READYWAIT_NoError}

\* C1: the bytes the sink accepted, followed by the bytes the buffer holds
\* from head to tail, are the bytes obtained from the inbound stream, in
\* order: nothing is lost, repeated or reordered, whatever the reads and
\* sends returned.
C1_NoLossNoDuplication == sent \o Contents(Buffer) = received

\* C1 witness: an iteration boundary after the buffer has wrapped around,
\* with bytes sent and bytes still held.
C1_Witness ==
  /\ pc = "ingress"
  /\ Buffer.In < Buffer.Out
  /\ Len(sent) > 1
  /\ RingBuffer_GetCount(Buffer) > 1
  /\ failedByte # NoData

\* C2: a send that fails leaves Count() and Peek() (and the whole contents)
\* as they were and emits nothing; the next send is of that same byte; a
\* send that succeeds makes the buffer exactly one shorter, at its head, and
\* emits that byte once.
C2_RetrySafety ==
  [][attempts' = attempts + 1 =>
       /\ lastPeek' = RingBuffer_Peek(Buffer)
       /\ failedByte # NoData => lastPeek' = failedByte
       /\ IF lastSend' = ENDPOINT_READYWAIT_NoError
            THEN /\ RingBuffer_GetCount(Buffer') = RingBuffer_GetCount(Buffer) - 1
                 /\ Contents(Buffer') = Tail(Contents(Buffer))
                 /\ sent' = Append(sent, lastPeek')
            ELSE /\ RingBuffer_GetCount(Buffer') = RingBuffer_GetCount(Buffer)
                 /\ RingBuffer_Peek(Buffer') = RingBuffer_Peek(Buffer)
                 /\ Contents(Buffer') = Contents(Buffer)
                 /\ sent' = sent]_vars

\* C2 witness: a byte whose send had failed has been sent again, with
\* success, and the loop goes on.
C2_Witness ==
  /\ pc = "send"
  /\ lastRetry
  /\ lastSend = ENDPOINT_READYWAIT_NoError
  /\ attempts = 1
  /\ lastPeek = sent[Len(sent)]
  /\ RingBuffer_GetCount(Buffer) > 0

\* C3 as stated: at the end of an egress phase in which no send failed,
\* min(Count() at its start, MaxChunk - 1) sends were attempted, never
\* MaxChunk or more; 63 of them with MaxChunk = 64 and Count() = 100.
C3_Original ==
  pc = "housekeeping" =>
    /\ attempts < CDC_TXRX_EPSIZE
    /\ ~SendFailed => attempts = MIN(BufferCount, CDC_TXRX_EPSIZE - 1)
    /\ (~SendFailed /\ CDC_TXRX_EPSIZE = 64 /\ BufferCount = 100)
         => attempts = 63

\* C3 as amended: the same, for a phase that found the IN endpoint ready;
\* a phase that did not attempts no send at all.
C3_ChunkCap ==
  pc = "housekeeping" =>
    /\ attempts < CDC_TXRX_EPSIZE
    /\ (inReady /\ ~SendFailed)
         => attempts = MIN(BufferCount, CDC_TXRX_EPSIZE - 1)
    /\ (inReady /\ ~SendFailed /\ CDC_TXRX_EPSIZE = 64 /\ BufferCount = 100)
         => attempts = 63
    /\ ~inReady => attempts = 0

\* C3 witness: 100 bytes held, a bank of 64, the endpoint ready and every
\* send accepted: 63 sends.
C3_Witness ==
  /\ pc = "housekeeping"
  /\ inReady
  /\ ~SendFailed
  /\ CDC_TXRX_EPSIZE = 64
  /\ BufferCount = 100
  /\ attempts = 63

\* C4: the count is within 0 .. 128 and is the number of Insert calls less
\* the number of Remove calls.
C4_CountBounds ==
  /\ RingBuffer_GetCount(Buffer) >= 0
  /\ RingBuffer_GetCount(Buffer) <= Capacity
  /\ RingBuffer_GetCount(Buffer) = inserts - removes

\* C4 witness: the buffer is full after bytes have been removed from it.
C4_Witness ==
  /\ RingBuffer_IsFull(Buffer)
  /\ removes > 0
  /\ inserts = Capacity + removes

\* C5: Insert is called only on a buffer that is not full, Peek and Remove
\* only on one that is not empty: the sends still to make never exceed the
\* bytes held.
C5_PreconditionsHonoured ==
  /\ precondOK
  /\ pc = "send" => BytesToSend <= RingBuffer_GetCount(Buffer)

\* C5 witness: ingress found the buffer full and made no read, after
\* bytes have been peeked and removed.
C5_Witness ==
  /\ pc = "egress"
  /\ ingress = "full"
  /\ RingBuffer_IsFull(Buffer)
  /\ removes > 0

\* C9 as stated: an iteration whose egress starts with a byte in the buffer
\* peeks the head byte and attempts at least one send.
C9_Original ==
  (pc = "housekeeping" /\ BufferCount >= 1) =>
    (attempts >= 1 /\ lastPeek # NoData)

\* C9 as amended: it does so when the IN endpoint is ready (line 107);
\* when it is not, the iteration attempts no send.
C9_EgressAttempted ==
  /\ (pc = "housekeeping" /\ BufferCount >= 1 /\ inReady) =>
       (attempts >= 1 /\ lastPeek # NoData)
  /\ (pc = "housekeeping" /\ ~inReady) => (attempts = 0 /\ lastPeek = NoData)

\* C9 witness: one byte held, the endpoint ready: one send attempted.
C9_Witness ==
  /\ pc = "housekeeping"
  /\ BufferCount = 1
  /\ inReady
  /\ attempts = 1
  /\ lastPeek # NoData

\* The port's transmitter, receiver or receive interrupt is on.
PortEnabled == UCSR1B # {}

\* The port is off and holds the divisor and the mode of the encoding of
\* the event being handled.
PortProgrammed ==
  /\ ~PortEnabled
  /\ hpc # "idle"
  /\ divEvent = events
  /\ modeEvent = events
  /\ UBRR1 = SERIAL_2X_UBBRVAL(LineEncoding.BaudRateBPS)
  /\ UCSR1C = ConfigMaskOf(LineEncoding)

PortPhase ==
  IF PortEnabled THEN "Enabled"
  ELSE IF PortProgrammed THEN "Programmed" ELSE "Disabled"

\* C6: an event takes the port through Disabled, Programmed, Enabled and no
\* other change of phase; the divisor and the mode register are written
\* only while the transmitter, the receiver and the interrupts are off; the
\* enabling write is the handler's last; an enabled port holds the divisor
\* and the mode of one and the same event, and once the handler has
\* returned they are those of the encoding delivered last.
C6_DisabledProgrammedEnabled ==
  /\ [](PortEnabled =>
          /\ UCSR1B = {RXCIE1, TXEN1, RXEN1}
          /\ divEvent = modeEvent
          /\ divEvent = IF hpc = "idle" THEN events ELSE events - 1
          /\ divEvent > 0)
  /\ []((hpc = "idle" /\ events > 0) =>
          /\ PortEnabled
          /\ U2X1 \in UCSR1A
          /\ UBRR1 = SERIAL_2X_UBBRVAL(LineEncoding.BaudRateBPS)
          /\ UCSR1C = ConfigMaskOf(LineEncoding))
  /\ [][(hpc' # hpc /\ lastWrite' \in {"UBRR1", "UCSR1C"}) =>
          (UCSR1B = {} /\ UCSR1B' = {})]_vars
  /\ [][(PortEnabled' /\ ~PortEnabled) => hpc' = "idle"]_vars
  /\ [][PortPhase' # PortPhase =>
          <<PortPhase, PortPhase'>> \in
            { <<"Enabled", "Disabled">>, <<"Disabled", "Programmed">>,
              <<"Programmed", "Enabled">> }]_vars

\* C6 witness: the handler has returned from a second event, whose encoding
\* differs from the first one's in baud rate and in mode.
C6_Witness ==
  /\ hpc = "idle"
  /\ events = 2
  /\ PortEnabled
  /\ LineEncoding.BaudRateBPS = 115200
  /\ UBRR1 = 16
  /\ UCSR1C = {UPM11, USBS1, UCSZ11}

\* C7: between the write that turns the port off and the write that turns
\* it on again no step of main is taken, and no step of main changes a
\* register of the port.
C7_ReconfigurationAtomic ==
  /\ [][hpc \notin {"idle", "L210"} => UNCHANGED mainVars]_vars
  /\ [][mainVars' # mainVars => UNCHANGED <<regVars, hpc>>]_vars

\* C7 witness: the event was delivered while main was in its send loop, and
\* the handler stands between turning the port off and on again.
C7_Witness ==
  /\ hpc = "L215"
  /\ events = 2
  /\ pc = "send"
  /\ attempts > 0
  /\ BytesToSend > 0

\* C8: from its beginning every iteration reaches the task calls, whatever
\* ingress and egress did; no task is run before that, and the step to the
\* next iteration has run CDC_Device_USBTask and USB_USBTask once each.
C8_HousekeepingUnconditional ==
  /\ [](pc \in {"egress", "send", "housekeeping"} =>
          (cdcTasks = 0 /\ usbTasks = 0))
  /\ [][(pc # "ingress" /\ pc' = "ingress") =>
          (pc = "housekeeping" /\ cdcTasks' = 1 /\ usbTasks' = 1)]_vars
  /\ [][(pc = "ingress" /\ pc' # "ingress") =>
          (pc' = "egress" /\ cdcTasks' = 0 /\ usbTasks' = 0)]_vars
  /\ (pc = "ingress") ~> (pc = "housekeeping")
  /\ (pc = "housekeeping") ~> (pc = "ingress" /\ cdcTasks = 1 /\ usbTasks = 1)

\* C8 witness: an iteration with the buffer full whose first send
\* failed stands before the task calls.
C8_Witness ==
  /\ pc = "housekeeping"
  /\ RingBuffer_IsFull(Buffer)
  /\ BufferCount = Capacity
  /\ SendFailed
  /\ attempts = 1
  /\ Len(received) = Capacity

\* C10: while the sink accepts nothing every iteration enqueues one byte
\* until, after 128 iterations, the buffer is full; from then on no byte is
\* read, and 22 of the 150 stay with the host; once the sink accepts, every
\* egress phase removes 7 bytes, or all that is left when that is less.
C10_Scenario ==
  /\ env = "refusing" =>
       /\ sent = <<>>
       /\ Len(received) = RingBuffer_GetCount(Buffer)
       /\ pc = "ingress" => RingBuffer_GetCount(Buffer) = MIN(iter, Capacity)
       /\ (pc = "ingress" /\ iter >= 128) =>
            /\ RingBuffer_IsFull(Buffer)
            /\ streamLen - Len(received) = 22
  /\ (env = "accepting" /\ pc = "housekeeping") =>
       /\ attempts = MIN(BufferCount, 7)
       /\ RingBuffer_GetCount(Buffer) = BufferCount - MIN(BufferCount, 7)
       /\ Len(sent) = removes

\* C10 witness: the sink started accepting when the buffer was full with
\* 22 bytes not yet read; the first egress phase after that has sent 7.
C10_Witness ==
  /\ env = "accepting"
  /\ pc = "housekeeping"
  /\ iter >= 128
  /\ BufferCount = Capacity
  /\ streamLen - Len(received) = 22
  /\ attempts = 7
  /\ RingBuffer_GetCount(Buffer) = 121

\* The handler has returned from an event: the registers are as it left
\* them for the encoding in LineEncoding.
Reconfigured == hpc = "idle" /\ events > 0

\* C11: for parity None, Odd or Even, one or two stop bits and 6, 7 or 8
\* data bits the mode register holds UPM11 for odd and even parity, UPM10
\* for odd parity, USBS1 for two stop bits, UCSZ11 for 7 and 8 data bits,
\* UCSZ10 for 6 and 8 data bits, and no other bit.
C11_ModeBitmask ==
  (/\ modeEvent = events
   /\ events > 0
   /\ LineEncoding.ParityType \in {"None", "Odd", "Even"}
   /\ LineEncoding.CharFormat \in {"OneStopBit", "TwoStopBits"}
   /\ LineEncoding.DataBits \in {6, 7, 8}) =>
    /\ UPM11 \in UCSR1C <=> LineEncoding.ParityType \in {"Odd", "Even"}
    /\ UPM10 \in UCSR1C <=> LineEncoding.ParityType = "Odd"
    /\ USBS1 \in UCSR1C <=> LineEncoding.CharFormat = "TwoStopBits"
    /\ UCSZ11 \in UCSR1C <=> LineEncoding.DataBits \in {7, 8}
    /\ UCSZ10 \in UCSR1C <=> LineEncoding.DataBits \in {6, 8}
    /\ UCSR1C \subseteq {UPM11, UPM10, USBS1, UCSZ11, UCSZ10}

\* C11 witness: odd parity, two stop bits and 7 data bits are in the mode
\* register, after an event that found another mode there.
C11_Witness ==
  /\ Reconfigured
  /\ LineEncoding.ParityType = "Odd"
  /\ LineEncoding.CharFormat = "TwoStopBits"
  /\ LineEncoding.DataBits = 7
  /\ UCSR1C = {UPM11, UPM10, USBS1, UCSZ11}
  /\ prevRegs[3] = {UPM11, UCSZ11, UCSZ10}

\* C12: once an event for 9600 baud, no parity, one stop bit and 8 data
\* bits has been handled, the divisor is F_CPU / (8 * 9600) - 1 in integer
\* arithmetic and the mode register holds the two flags of 8 data bits and
\* nothing else.
C12_Scenario9600 ==
  (/\ Reconfigured
   /\ LineEncoding = [BaudRateBPS |-> 9600, CharFormat |-> "OneStopBit",
                      ParityType |-> "None", DataBits |-> 8]) =>
    /\ UBRR1 = (F_CPU \div (8 * 9600)) - 1
    /\ UCSR1C = {UCSZ11, UCSZ10}

\* C12 witness: the event has been handled on a port that held the divisor
\* of 115200 baud and a mode with parity and two stop bits.
C12_Witness ==
  /\ Reconfigured
  /\ LineEncoding = [BaudRateBPS |-> 9600, CharFormat |-> "OneStopBit",
                     ParityType |-> "None", DataBits |-> 8]
  /\ UBRR1 = 207
  /\ UCSR1C = {UCSZ11, UCSZ10}
  /\ prevRegs[4] = 16
  /\ prevRegs[3] = {UPM11, UPM10, USBS1, UCSZ10}

\* An event whose data bit count is not 6, 7 or 8 is being handled or has
\* been handled last.
OutOfRangeDataBits == events > 0 /\ LineEncoding.DataBits \notin {6, 7, 8}

\* C17: an event with a data bit count outside 6 .. 8 is handled like any
\* other: the port is off from the first write to the last, the divisor of
\* the requested baud rate is written, the mode register gets the requested
\* parity and stop bits and no data bit flag, and the handler returns with
\* the port enabled in double-speed mode.
C17_OutOfRangeDataBits ==
  OutOfRangeDataBits =>
    /\ hpc \in {"L211", "L212", "L215", "L218", "L219", "L220"} => ~PortEnabled
    /\ hpc \in {"L218", "L219", "L220", "idle"} =>
         /\ divEvent = events
         /\ UBRR1 = SERIAL_2X_UBBRVAL(LineEncoding.BaudRateBPS)
    /\ hpc \in {"L219", "L220", "idle"} =>
         /\ modeEvent = events
         /\ UCSR1C \cap {UCSZ11, UCSZ10} = {}
         /\ UCSR1C = ParityMask(LineEncoding) \cup StopMask(LineEncoding)
    /\ hpc = "idle" =>
         /\ UCSR1B = {RXCIE1, TXEN1, RXEN1}
         /\ UCSR1A = {U2X1}
         /\ lastWrite = "UCSR1B"

\* C17 witness: an event for 5 data bits, even parity and two stop bits at
\* 57600 baud has been handled on a port that was set for 8 data bits.
C17_Witness ==
  /\ Reconfigured
  /\ LineEncoding = [BaudRateBPS |-> 57600, CharFormat |-> "TwoStopBits",
                     ParityType |-> "Even", DataBits |-> 5]
  /\ UCSR1C = {UPM11, USBS1}
  /\ UBRR1 = 33
  /\ PortEnabled
  /\ {UCSZ11, UCSZ10} \subseteq prevRegs[3]

\* The registers an event for enc leaves, whatever they held before.
RegistersOf(enc) ==
  <<{U2X1}, {RXCIE1, TXEN1, RXEN1}, ConfigMaskOf(enc),
    SERIAL_2X_UBBRVAL(enc.BaudRateBPS)>>

\* C19: the registers the handler leaves are a function of the encoding
\* delivered last, whatever the registers held when the event arrived: the
\* same encoding twice leaves what it leaves once, and A then B leaves what
\* B alone leaves.
C19_FunctionOfEncoding == Reconfigured => regVars = RegistersOf(LineEncoding)

\* C19 witness: a second event has been handled on a port the first event
\* had left enabled with another divisor and another mode.
C19_Witness ==
  /\ Reconfigured
  /\ events = 2
  /\ prevRegs[2] = {RXCIE1, TXEN1, RXEN1}
  /\ prevRegs[3] # UCSR1C
  /\ prevRegs[4] # UBRR1
  /\ prevRegs[4] # 0

\* C13: a send that returns anything but NoError, EndpointStalled and
\* Timeout alike, ends the egress phase: the step leaves the buffer and the
\* count of removals as they were and goes to the task calls, from where
\* the only step begins the next iteration without a send or a removal; the
\* first send attempted after that is of the byte whose send failed.
C13_FailureAbortsEgress ==
  /\ [][(attempts' = attempts + 1 /\ lastSend' # ENDPOINT_READYWAIT_NoError) =>
          /\ lastSend' \in {"EndpointStalled", "Timeout"}
          /\ pc' = "housekeeping"
          /\ BytesToSend' = 0
          /\ Buffer' = Buffer
          /\ removes' = removes
          /\ sent' = sent
          /\ failedByte' = RingBuffer_Peek(Buffer)]_vars
  /\ [][pc = "housekeeping" =>
          /\ pc' = "ingress"
          /\ attempts' = 0
          /\ Buffer' = Buffer
          /\ removes' = removes
          /\ sent' = sent
          /\ failedByte' = failedByte]_vars
  /\ [][(attempts' = attempts + 1 /\ failedByte # NoData) =>
          /\ attempts = 0
          /\ lastPeek' = failedByte
          /\ RingBuffer_Peek(Buffer) = failedByte]_vars

\* C13 witness: the send of a byte has failed in one iteration with one
\* outcome and, as the first send of a later iteration, again with Timeout;
\* bytes were sent before it in the first of these iterations.
C13_Witness ==
  /\ pc = "housekeeping"
  /\ lastRetry
  /\ attempts = 1
  /\ lastSend = "Timeout"
  /\ lastPeek = failedByte
  /\ Len(sent) > 0
  /\ RingBuffer_GetCount(Buffer) > 1

\* C14: the stream is read and the buffer is inserted into by the ingress
\* step only, which every iteration takes once; the step reads at most one
\* byte and inserts exactly what it read; when the read returned no byte the
\* buffer is as it was.
C14_OneBytePerIteration ==
  /\ [][(received' # received \/ inserts' # inserts) =>
          (pc = "ingress" /\ pc' = "egress")]_vars
  /\ [][pc' = "ingress" => pc \in {"ingress", "housekeeping"}]_vars
  /\ [][pc = "ingress" =>
          /\ Len(received') <= Len(received) + 1
          /\ inserts' - inserts = Len(received') - Len(received)
          /\ received' = received =>
               /\ Buffer' = Buffer
               /\ ingress' \in {"nodata", "full"}
          /\ received' # received =>
               /\ ingress' = "byte"
               /\ Contents(Buffer') =
                    Append(Contents(Buffer), received'[Len(received')])]_vars

\* C14 witness: the read of this iteration returned no byte although the
\* host has more, and the buffer holds bytes of earlier iterations.
C14_Witness ==
  /\ pc = "egress"
  /\ ingress = "nodata"
  /\ RingBuffer_GetCount(Buffer) > 1
  /\ ~RingBuffer_IsFull(Buffer)
  /\ Len(received) < streamLen

\* C15: the ingress step of an iteration that finds the buffer full reads
\* nothing and leaves the buffer as it was; the bytes taken from the host
\* are a prefix of its stream and every one of them was inserted, so the
\* byte not read is the one a later read returns.
C15_Backpressure ==
  /\ [][(pc = "ingress" /\ RingBuffer_IsFull(Buffer)) =>
          /\ received' = received
          /\ inserts' = inserts
          /\ Buffer' = Buffer
          /\ pc' = "egress" => ingress' = "full"]_vars
  /\ [](/\ Len(received) <= streamLen
        /\ inserts = Len(received)
        /\ \A i \in 1 .. Len(received) : received[i] = StreamByte(i))
  /\ [][received' # received =>
          received' = Append(received, StreamByte(Len(received) + 1))]_vars

\* C15 witness: the buffer is full, the host has bytes left, and the
\* ingress step of this iteration has been taken without a read.
C15_Witness ==
  /\ pc = "egress"
  /\ ingress = "full"
  /\ RingBuffer_IsFull(Buffer)
  /\ Len(received) < streamLen
  /\ Len(sent) > 0

\* C16: no step of the event, from its delivery to the handler's return,
\* changes the buffer or the counts of insertions and removals; the buffer
\* changes only in a step of main, at its Insert or its Remove.
C16_HandlerLeavesBuffer ==
  /\ [][(hpc # "idle" \/ hpc' # "idle" \/ events' # events) =>
          /\ Buffer' = Buffer
          /\ inserts' = inserts
          /\ removes' = removes]_vars
  /\ [][Buffer' # Buffer =>
          /\ hpc = "idle" /\ hpc' = "idle"
          /\ UNCHANGED <<regVars, events>>
          /\ \/ pc = "ingress" /\ inserts' = inserts + 1 /\ removes' = removes
             \/ pc = "send" /\ removes' = removes + 1 /\ inserts' = inserts]_vars

\* C16 witness: the event was delivered between two sends of an egress
\* phase, and the handler is about to return with the buffer still holding
\* the byte that is left.
C16_Witness ==
  /\ hpc = "L220"
  /\ pc = "send"
  /\ removes = 1
  /\ RingBuffer_GetCount(Buffer) = 1
  /\ BytesToSend = 1

\* C18: once the sink accepts every send, the loop, taking its steps,
\* comes to a state where the host's stream is exhausted, the buffer is
\* empty and the bytes the sink accepted are the bytes inserted, in order;
\* a buffer that was full when the sink began to accept is sent whole.
C18_EventualDelivery ==
  /\ (env = "accepting") ~>
       (/\ RingBuffer_IsEmpty(Buffer)
        /\ Len(received) = streamLen
        /\ inserts = streamLen
        /\ removes = inserts
        /\ sent = received)
  /\ (env = "accepting" /\ inserts = Capacity) ~> (Len(sent) >= Capacity)

\* C18 witness: the sink began to accept when the buffer was full and bytes
\* were left with the host; all 150 bytes have been sent and the buffer is
\* empty.
C18_Witness ==
  /\ env = "accepting"
  /\ iter >= 128
  /\ RingBuffer_IsEmpty(Buffer)
  /\ Len(sent) = ScenarioStream
  /\ sent = received
  /\ removes = ScenarioStream

====
